---- MODULE Spec2Model ----
(***************************************************************************)
(* Model of prusa.link.printer_adapter.informers.state_manager:           *)
(* the StateManager (three state layers, the reported history, the        *)
(* expected state change and the state_influencer bracket) as it is       *)
(* driven by several Python threads.  Every read or write of an attribute *)
(* shared between threads is a step of its own, so the interleavings the  *)
(* interpreter allows are the interleavings of the model.                 *)
(***************************************************************************)
EXTENDS Integers, FiniteSets, Sequences, TLC

\* Python's None where a State or a Source is expected
None == "None"

\* Python's None where a command id (an int) is expected
NoneId == -1

\* prusa.connect.printer.const.State / Source, as far as the module uses them
States == {"READY", "BUSY", "PRINTING", "PAUSED", "FINISHED",
           "ATTENTION", "ERROR"}

Sources == {"USER", "MARLIN", "HW", "CONNECT", "SERIAL", "WUI"}

\* Two of the threads that call the StateManager, named after the thread
\* of the SerialReader, which runs the handlers registered in
\* regex_handlers, and a thread of another component (the file printer's
\* signals, serial_error, serial_error_resolved).  Nothing in the module
\* ties a method to a thread: each of the two can call every method.
\* expect_change and stop_expecting_change are single writes and are also
\* called from the threads that run commands: they are steps of no thread
\* of this set.
Reader == "reader"

Other == "other"

Threads == {Reader, Other}

\* the history counter tage saturates here
MaxAge == 2

\* an empty dict
EmptyDict == [s \in {} |-> None]

\* StateChange.__init__
StateChange(cid, to, from, default) ==
    [command_id |-> cid, to_states |-> to, from_states |-> from,
     default_source |-> default]

\* expected_state_change is None
NoChange == [none |-> TRUE]

\* the names of the methods decorated with @state_influencer
Ops == {"printing", "not_printing", "finished", "busy", "paused", "resumed",
        "ok", "attention", "error", "serial_error", "serial_error_resolved"}

\* the decorators' StateChanges with ok() given no from_states
Default_ok_to_only(o) ==
    CASE o = "printing" ->
           StateChange(NoneId, "PRINTING" :> "USER", EmptyDict, None)
      [] o = "not_printing" ->
           StateChange(NoneId, EmptyDict,
                       [s \in {"PRINTING", "PAUSED", "FINISHED"} |-> "MARLIN"],
                       None)
      [] o = "finished" ->
           StateChange(NoneId, "FINISHED" :> "MARLIN", EmptyDict, None)
      [] o = "busy" ->
           StateChange(NoneId, "BUSY" :> "MARLIN", EmptyDict, None)
      [] o = "paused" ->
           StateChange(NoneId, "PAUSED" :> "USER", EmptyDict, None)
      [] o = "resumed" ->
           StateChange(NoneId, "PRINTING" :> "USER", EmptyDict, None)
      [] o = "ok" ->
           StateChange(NoneId, "READY" :> "MARLIN", EmptyDict, None)
      [] o = "attention" ->
           StateChange(NoneId, "ATTENTION" :> "USER", EmptyDict, None)
      [] o = "error" ->
           StateChange(NoneId, "ERROR" :> "WUI", EmptyDict, None)
      [] o = "serial_error" ->
           StateChange(NoneId, "ERROR" :> "SERIAL", EmptyDict, None)
      [] o = "serial_error_resolved" ->
           StateChange(NoneId, "READY" :> "SERIAL", EmptyDict, None)

\* the StateChange each decorator is given
Default(o) ==
    CASE o = "printing" ->
           StateChange(NoneId, "PRINTING" :> "USER", EmptyDict, None)
      [] o = "not_printing" ->
           StateChange(NoneId, EmptyDict,
                       [s \in {"PRINTING", "PAUSED", "FINISHED"} |-> "MARLIN"],
                       None)
      [] o = "finished" ->
           StateChange(NoneId, "FINISHED" :> "MARLIN", EmptyDict, None)
      [] o = "busy" ->
           StateChange(NoneId, "BUSY" :> "MARLIN", EmptyDict, None)
      [] o = "paused" ->
           StateChange(NoneId, "PAUSED" :> "USER", EmptyDict, None)
      [] o = "resumed" ->
           StateChange(NoneId, "PRINTING" :> "USER", EmptyDict, None)
      [] o = "ok" ->
           StateChange(NoneId, "READY" :> "MARLIN",
                       ("ATTENTION" :> "USER") @@ ("ERROR" :> "USER")
                           @@ ("BUSY" :> "HW"),
                       None)
      [] o = "attention" ->
           StateChange(NoneId, "ATTENTION" :> "USER", EmptyDict, None)
      [] o = "error" ->
           StateChange(NoneId, "ERROR" :> "WUI", EmptyDict, None)
      [] o = "serial_error" ->
           StateChange(NoneId, "ERROR" :> "SERIAL", EmptyDict, None)
      [] o = "serial_error_resolved" ->
           StateChange(NoneId, "READY" :> "SERIAL", EmptyDict, None)

\* the StateChange file_printer_started_printing pushes
StartedChange == StateChange(NoneId, "PRINTING" :> "CONNECT", EmptyDict, None)

\* the StateChange file_printer_stopped_printing pushes
StoppedChange == StateChange(NoneId, "FINISHED" :> "MARLIN", EmptyDict, None)

\* the descriptors other components hand to expect_change: a command that
\* expects FINISHED and names no default source, and a command with a
\* default source, from- and to-sources that disagree and None entries
CallerChanges ==
    { StateChange(42, "FINISHED" :> "CONNECT", EmptyDict, None),
      StateChange(9, ("READY" :> "CONNECT") @@ ("PRINTING" :> None),
                  ("BUSY" :> "SERIAL") @@ ("PAUSED" :> None), "WUI") }

\* the values print_info_handler stores in progress
Progresses == {0, 100}

VARIABLES
    base_state, printing_state, override_state,  \* the three layers
    last_state, current_state,                 \* the reported history
    progress,                                  \* data.progress
    expected_state_change,                     \* the pending StateChange
    state_lock,                                \* the thread holding it, or Free
    pc,                        \* where each thread is
    op,                        \* the decorated method a thread runs
    via,                       \* the handler that called it
    has_set_expected_change,   \* the wrapper's local
    state_change,              \* is_expected's local
    command_id, source,        \* state_may_have_changed's locals
    sent,                      \* the notification a send() is delivering
    intr,        \* history: the ledger was written by a thread not holding
                 \*   the lock since the lock was taken
    detected,    \* history: this bracket found the reportable state changed
    pushed,      \* history: the StateChange a caller pushed, as long as no
                 \*   method called after the push has returned and no
                 \*   other write has replaced it unused
    tage         \* history: changes detected since the ledger was written

vars == <<base_state, printing_state, override_state, last_state,
          current_state, progress, expected_state_change, state_lock, pc, op,
          via, has_set_expected_change, state_change, command_id, source,
          sent, intr, detected, pushed, tage>>

layers == <<base_state, printing_state, override_state>>

history == <<last_state, current_state>>

locals == <<has_set_expected_change, state_change, command_id, source>>

\* no thread holds state_lock
Free == "free"

\* get_state with the layers tested in the wrong order: the activity layer
\* outranks the override
get_state_activity_first(base, prn, ovr) ==
    IF prn # None THEN prn
    ELSE IF ovr # None THEN ovr
    ELSE base

\* StateManager.get_state
get_state(base, prn, ovr) ==
    IF ovr # None THEN ovr
    ELSE IF prn # None THEN prn
    ELSE base

\* is_expected without has_default_source
is_expected_no_default(sc, last, cur) ==
    IF sc # NoChange
    THEN LET expected_to == cur \in DOMAIN sc.to_states
             expected_from == last \in DOMAIN sc.from_states
         IN  expected_to \/ expected_from
    ELSE FALSE

\* StateManager.is_expected, given the StateChange it read
is_expected(sc, last, cur) ==
    IF sc # NoChange
    THEN LET expected_to == cur \in DOMAIN sc.to_states
             expected_from == last \in DOMAIN sc.from_states
             has_default_source == sc.default_source # None
         IN  expected_to \/ expected_from \/ has_default_source
    ELSE FALSE

\* get_expected_source picking source_to when the two sources conflict
get_expected_source_to_first(sc, last, cur) ==
    IF sc = NoChange THEN None
    ELSE
    LET source_from == IF last \in DOMAIN sc.from_states
                       THEN sc.from_states[last] ELSE None
        source_to == IF cur \in DOMAIN sc.to_states
                     THEN sc.to_states[cur] ELSE None
        items == SelectSeq(<<source_from, source_to>>, LAMBDA i : i # None)
        src == IF source_from # None /\ source_to # None
                    /\ source_to # source_from
               THEN source_to
               ELSE IF Len(items) > 0 THEN Head(items) ELSE None
    IN  IF src = None THEN sc.default_source ELSE src

\* StateManager.get_expected_source, given the StateChange it read
get_expected_source(sc, last, cur) ==
    IF sc = NoChange THEN None
    ELSE
    LET source_from == IF last \in DOMAIN sc.from_states
                       THEN sc.from_states[last] ELSE None
        source_to == IF cur \in DOMAIN sc.to_states
                     THEN sc.to_states[cur] ELSE None
        items == SelectSeq(<<source_from, source_to>>, LAMBDA i : i # None)
        src == IF source_from # None /\ source_to # None
                    /\ source_to # source_from
               THEN source_from
               ELSE IF Len(items) > 0 THEN Head(items) ELSE None
    IN  IF src = None THEN sc.default_source ELSE src

\* the three layers as one value
Layers == [base_state |-> base_state, printing_state |-> printing_state,
           override_state |-> override_state]

\* StateManager.printing (the decorated body)
printing(l) ==
    IF l.printing_state = None
    THEN [l EXCEPT !.printing_state = "PRINTING"] ELSE l

\* StateManager.not_printing
not_printing(l) ==
    IF l.printing_state # None
    THEN [l EXCEPT !.printing_state = None] ELSE l

\* StateManager.finished
finished(l) ==
    IF l.printing_state = "PRINTING"
    THEN [l EXCEPT !.printing_state = "FINISHED"] ELSE l

\* busy() also dropping the override
busy_clears_override(l) ==
    IF l.base_state = "READY"
    THEN [l EXCEPT !.base_state = "BUSY", !.override_state = None] ELSE l

\* StateManager.busy
busy(l) ==
    IF l.base_state = "READY" THEN [l EXCEPT !.base_state = "BUSY"] ELSE l

\* paused() also dropping the override
paused_clears_override(l) ==
    IF l.printing_state = "PRINTING"
    THEN [l EXCEPT !.printing_state = "PAUSED", !.override_state = None]
    ELSE l

\* StateManager.paused
paused(l) ==
    IF l.printing_state = "PRINTING"
    THEN [l EXCEPT !.printing_state = "PAUSED"] ELSE l

\* StateManager.resumed
resumed(l) ==
    IF l.printing_state = "PAUSED"
    THEN [l EXCEPT !.printing_state = "PRINTING"] ELSE l

\* StateManager.ok: three independent ifs, one per layer
ok(l) ==
    LET l1 == IF l.base_state = "BUSY"
              THEN [l EXCEPT !.base_state = "READY"] ELSE l
        l2 == IF l1.printing_state = "FINISHED"
              THEN [l1 EXCEPT !.printing_state = None] ELSE l1
    IN  IF l2.override_state # None
        THEN [l2 EXCEPT !.override_state = None] ELSE l2

\* StateManager.attention
attention(l) == [l EXCEPT !.override_state = "ATTENTION"]

\* StateManager.error
error(l) == [l EXCEPT !.override_state = "ERROR"]

\* StateManager.serial_error
serial_error(l) == [l EXCEPT !.override_state = "ERROR"]

\* serial_error_resolved() clearing whatever override is set
serial_error_resolved_any(l) ==
    IF l.override_state # None
    THEN [l EXCEPT !.override_state = None] ELSE l

\* StateManager.serial_error_resolved
serial_error_resolved(l) ==
    IF l.override_state = "ERROR"
    THEN [l EXCEPT !.override_state = None] ELSE l

\* func(self, *args, **kwargs) in the wrapper: the decorated method o
func(o, l) ==
    CASE o = "printing" -> printing(l)
      [] o = "not_printing" -> not_printing(l)
      [] o = "finished" -> finished(l)
      [] o = "busy" -> busy(l)
      [] o = "paused" -> paused(l)
      [] o = "resumed" -> resumed(l)
      [] o = "ok" -> ok(l)
      [] o = "attention" -> attention(l)
      [] o = "error" -> error(l)
      [] o = "serial_error" -> serial_error(l)
      [] o = "serial_error_resolved" -> serial_error_resolved(l)

\* the value of sent while no send() is running
NothingSent == [kind |-> "none"]

Bump(n) == IF n < MaxAge THEN n + 1 ELSE MaxAge

Init ==
    /\ base_state = "READY"
    /\ printing_state = None
    /\ override_state = None
    /\ last_state = get_state("READY", None, None)
    /\ current_state = get_state("READY", None, None)
    /\ progress = 0
    /\ expected_state_change = NoChange
    /\ state_lock = Free
    /\ pc = [t \in Threads |-> "idle"]
    /\ op = [t \in Threads |-> "none"]
    /\ via = [t \in Threads |-> "none"]
    /\ has_set_expected_change = [t \in Threads |-> FALSE]
    /\ state_change = [t \in Threads |-> NoChange]
    /\ command_id = [t \in Threads |-> NoneId]
    /\ source = [t \in Threads |-> None]
    /\ sent = NothingSent
    /\ intr = FALSE
    /\ detected = FALSE
    /\ pushed = NoChange
    /\ tage = 0

Goto(t, p) == pc' = [pc EXCEPT ![t] = p]

\* a write of expected_state_change by a thread that does not hold the lock
WriteUnlocked(d) ==
    /\ expected_state_change' = d
    /\ tage' = 0
    /\ intr' = (intr \/ state_lock # Free)
    /\ pushed' = d

\* a write of expected_state_change by the thread holding the lock
WriteLocked(d) ==
    /\ expected_state_change' = d
    /\ tage' = 0
    /\ pushed' = IF intr THEN NoChange ELSE pushed

\* the with block entered without waiting for the lock to be free
Lock_unguarded(t) ==
    /\ state_lock' = t
    /\ Goto(t, "w_check")
    /\ intr' = FALSE
    /\ detected' = FALSE

\* "with self.state_lock:" entered (threading.Lock is not reentrant)
Lock(t) ==
    /\ state_lock = Free
    /\ state_lock' = t
    /\ Goto(t, "w_check")
    /\ intr' = FALSE
    /\ detected' = FALSE

\* the with block is left: the lock is released, the locals of the call are
\* gone, the last send has returned
Unlock(t) ==
    /\ state_lock' = Free
    /\ pc' = [pc EXCEPT ![t] = "idle"]
    /\ op' = [op EXCEPT ![t] = "none"]
    /\ via' = [via EXCEPT ![t] = "none"]
    /\ has_set_expected_change' =
           [has_set_expected_change EXCEPT ![t] = FALSE]
    /\ state_change' = [state_change EXCEPT ![t] = NoChange]
    /\ command_id' = [command_id EXCEPT ![t] = NoneId]
    /\ source' = [source EXCEPT ![t] = None]
    /\ sent' = NothingSent
    /\ intr' = FALSE
    /\ detected' = FALSE

\* the AttributeError leaves state_may_have_changed and the wrapper's
\* body: nothing is sent, the ledger is left as it is, and the with
\* statement goes on to release the lock
Raise(t) ==
    /\ Goto(t, "w_release")
    /\ UNCHANGED <<layers, history, progress, expected_state_change,
                   state_lock, op, via, locals, sent, intr, detected, pushed,
                   tage>>

\* a thread calls one of the decorated methods and gets the lock
Call(t, o) ==
    /\ pc[t] = "idle"
    /\ o \in Ops
    /\ Lock(t)
    /\ op' = [op EXCEPT ![t] = o]
    /\ via' = [via EXCEPT ![t] = "direct"]
    /\ UNCHANGED <<layers, history, progress, expected_state_change, locals,
                   sent, pushed, tage>>

\* StateManager.print_info_handler with int(groups[0]) = p
print_info_handler(t, p) ==
    /\ pc[t] = "idle"
    /\ progress' = p
    /\ UNCHANGED <<layers, history, expected_state_change, state_lock, pc, op,
                   via, locals, sent, intr, detected, pushed, tage>>

\* sd_printing_handler without the test of is_paused
sd_printing_handler_not_sticky(t, group_none, fp_printing) ==
    /\ pc[t] = "idle"
    /\ LET is_printing == group_none \/ fp_printing
       IN  /\ op' = [op EXCEPT ![t] = IF ~is_printing
                                       THEN "not_printing" ELSE "printing"]
           /\ via' = [via EXCEPT ![t] = IF is_printing
                                         THEN "sd" ELSE "sd_idle"]
    /\ Goto(t, "acquire")
    /\ UNCHANGED <<layers, history, progress, expected_state_change,
                   state_lock, locals, sent, intr, detected, pushed, tage>>

\* StateManager.sd_printing_handler up to the call it makes; group_none is
\* "groups[0] is None", fp_printing is model.file_printer.printing.  via
\* keeps the handler's local "printing": "sd" when it is True, "sd_idle"
\* when the line says that nothing is being printed
sd_printing_handler(t, group_none, fp_printing) ==
    /\ pc[t] = "idle"
    /\ LET is_printing == group_none \/ fp_printing
           is_paused == printing_state = "PAUSED"
       IN  /\ op' = [op EXCEPT ![t] = IF ~is_printing /\ ~is_paused
                                       THEN "not_printing" ELSE "printing"]
           /\ via' = [via EXCEPT ![t] = IF is_printing
                                         THEN "sd" ELSE "sd_idle"]
    /\ Goto(t, "acquire")
    /\ UNCHANGED <<layers, history, progress, expected_state_change,
                   state_lock, locals, sent, intr, detected, pushed, tage>>

\* StateManager.file_printer_started_printing: the condition
file_printer_started_printing(t, fp_printing) ==
    /\ pc[t] = "idle"
    /\ fp_printing /\ printing_state # "PRINTING"
    /\ Goto(t, "fps_push")
    /\ via' = [via EXCEPT ![t] = "fp_start"]
    /\ UNCHANGED <<layers, history, progress, expected_state_change,
                   state_lock, op, locals, sent, intr, detected, pushed, tage>>

\* file_printer_started_printing: expect_change(...), then the call
fps_push(t) ==
    /\ pc[t] = "fps_push"
    /\ WriteUnlocked(StartedChange)
    /\ op' = [op EXCEPT ![t] = "printing"]
    /\ Goto(t, "acquire")
    /\ UNCHANGED <<layers, history, progress, state_lock, via, locals, sent,
                   detected>>

\* StateManager.file_printer_stopped_printing: the condition
file_printer_stopped_printing(t) ==
    /\ pc[t] = "idle"
    /\ progress = 100
    /\ Goto(t, "fpe_push")
    /\ via' = [via EXCEPT ![t] = "fp_stop"]
    /\ UNCHANGED <<layers, history, progress, expected_state_change,
                   state_lock, op, locals, sent, intr, detected, pushed, tage>>

\* file_printer_stopped_printing: expect_change(...), then the call
fpe_push(t) ==
    /\ pc[t] = "fpe_push"
    /\ WriteUnlocked(StoppedChange)
    /\ op' = [op EXCEPT ![t] = "finished"]
    /\ Goto(t, "acquire")
    /\ UNCHANGED <<layers, history, progress, state_lock, via, locals, sent,
                   detected>>

\* expect_change ignoring the push when a descriptor is pending
expect_change_ignored(change) ==
    /\ IF expected_state_change = NoChange
       THEN WriteUnlocked(change)
       ELSE /\ pushed' = change
            /\ UNCHANGED <<expected_state_change, tage, intr>>
    /\ UNCHANGED <<layers, history, progress, state_lock, pc, op, via, locals,
                   sent, detected>>

\* StateManager.expect_change called by another component
expect_change(change) ==
    /\ WriteUnlocked(change)
    /\ UNCHANGED <<layers, history, progress, state_lock, pc, op, via, locals,
                   sent, detected>>

\* StateManager.stop_expecting_change called by another component
stop_expecting_change ==
    /\ WriteUnlocked(NoChange)
    /\ UNCHANGED <<layers, history, progress, state_lock, pc, op, via, locals,
                   sent, detected>>

\* the lock taken as an RLock would be: the holder enters again
Acquire_reentrant(t) ==
    /\ pc[t] = "acquire"
    /\ state_lock \in {Free, t}
    /\ state_lock' = t
    /\ Goto(t, "w_check")
    /\ intr' = FALSE
    /\ detected' = FALSE
    /\ UNCHANGED <<layers, history, progress, expected_state_change, op, via,
                   locals, sent, pushed, tage>>

\* a handler's call of a decorated method gets the lock
Acquire(t) ==
    /\ pc[t] = "acquire"
    /\ Lock(t)
    /\ UNCHANGED <<layers, history, progress, expected_state_change, op, via,
                   locals, sent, pushed, tage>>

\* the wrapper pushing its default whatever is pending
w_check_override(t) ==
    /\ pc[t] = "w_check"
    /\ has_set_expected_change' =
           [has_set_expected_change EXCEPT ![t] = TRUE]
    /\ Goto(t, "w_push")
    /\ UNCHANGED <<layers, history, progress, expected_state_change,
                   state_lock, op, via, state_change, command_id, source,
                   sent, intr, detected, pushed, tage>>

\* wrapper: "if self.expected_state_change is None and state_change is not
\* None" (every decorator of the module is given a StateChange)
w_check(t) ==
    /\ pc[t] = "w_check"
    /\ IF expected_state_change = NoChange
       THEN /\ has_set_expected_change' =
                   [has_set_expected_change EXCEPT ![t] = TRUE]
            /\ Goto(t, "w_push")
       ELSE /\ has_set_expected_change' =
                   [has_set_expected_change EXCEPT ![t] = FALSE]
            /\ Goto(t, "w_func")
    /\ UNCHANGED <<layers, history, progress, expected_state_change,
                   state_lock, op, via, state_change, command_id, source,
                   sent, intr, detected, pushed, tage>>

\* wrapper: self.expect_change(state_change)
w_push(t) ==
    /\ pc[t] = "w_push"
    /\ WriteLocked(Default(op[t]))
    /\ Goto(t, "w_func")
    /\ UNCHANGED <<layers, history, progress, state_lock, op, via, locals,
                   sent, intr, detected>>

\* the reported history without the assignment of current_state
shift_stale(last, cur, new) == <<cur, cur>>

\* state_may_have_changed, lines 237 and 238: the new last_state and
\* current_state when the reportable state new differs from current_state
shift(last, cur, new) == <<cur, new>>

\* the comparison noticing only a reportable state that is an override
state_has_changed_to_override(new, cur) ==
    new # cur /\ new \in {"ATTENTION", "ERROR"}

\* state_may_have_changed, line 236: get_state() != self.data.current_state
state_has_changed(new, cur) == new # cur

\* wrapper: func(self, *args, **kwargs), then state_may_have_changed up to
\* "source = None": the comparison and, on a change, the update of the
\* reported history.  All of it touches only what the lock protects.
w_func(t) ==
    /\ pc[t] = "w_func"
    /\ LET l == func(op[t], Layers)
           new == get_state(l.base_state, l.printing_state, l.override_state)
       IN  /\ base_state' = l.base_state
           /\ printing_state' = l.printing_state
           /\ override_state' = l.override_state
           /\ IF state_has_changed(new, current_state)
              THEN /\ LET h == shift(last_state, current_state, new)
                      IN  /\ last_state' = h[1]
                          /\ current_state' = h[2]
                   /\ command_id' = [command_id EXCEPT ![t] = NoneId]
                   /\ source' = [source EXCEPT ![t] = None]
                   /\ detected' = TRUE
                   /\ tage' = IF expected_state_change # NoChange
                              THEN Bump(tage) ELSE tage
                   /\ Goto(t, "sm_is_expected")
              ELSE /\ Goto(t, "w_exit")
                   /\ UNCHANGED <<history, command_id, source, detected,
                                  tage>>
    /\ UNCHANGED <<progress, expected_state_change, state_lock, op, via,
                   has_set_expected_change, state_change, sent, intr, pushed>>

\* state_may_have_changed: "if self.is_expected():", which reads
\* expected_state_change once
sm_is_expected(t) ==
    /\ pc[t] = "sm_is_expected"
    /\ state_change' = [state_change EXCEPT ![t] = expected_state_change]
    /\ IF is_expected(expected_state_change, last_state, current_state)
       THEN Goto(t, "sm_cid_test")
       ELSE Goto(t, "sm_clear")
    /\ UNCHANGED <<layers, history, progress, expected_state_change,
                   state_lock, op, via, has_set_expected_change, command_id,
                   source, sent, intr, detected, pushed, tage>>

\* "if self.expected_state_change.command_id is not None": a second read;
\* on None the attribute access raises AttributeError
sm_cid_test(t) ==
    /\ pc[t] = "sm_cid_test"
    /\ IF expected_state_change = NoChange
       THEN Raise(t)
       ELSE /\ IF expected_state_change.command_id # NoneId
               THEN Goto(t, "sm_cid_read")
               ELSE Goto(t, "ges_test")
            /\ UNCHANGED <<layers, history, progress, expected_state_change,
                           state_lock, op, via, locals, sent, intr, detected,
                           pushed, tage>>

\* "command_id = self.expected_state_change.command_id": a third read
sm_cid_read(t) ==
    /\ pc[t] = "sm_cid_read"
    /\ IF expected_state_change = NoChange
       THEN Raise(t)
       ELSE /\ command_id' = [command_id EXCEPT
                                 ![t] = expected_state_change.command_id]
            /\ Goto(t, "ges_test")
            /\ UNCHANGED <<layers, history, progress, expected_state_change,
                           state_lock, op, via, has_set_expected_change,
                           state_change, source, sent, intr, detected, pushed,
                           tage>>

\* get_expected_source: "if self.expected_state_change is None: return None"
ges_test(t) ==
    /\ pc[t] = "ges_test"
    /\ IF expected_state_change = NoChange
       THEN /\ source' = [source EXCEPT ![t] = None]
            /\ Goto(t, "sm_clear")
       ELSE /\ Goto(t, "ges_read")
            /\ UNCHANGED source
    /\ UNCHANGED <<layers, history, progress, expected_state_change,
                   state_lock, op, via, has_set_expected_change, state_change,
                   command_id, sent, intr, detected, pushed, tage>>

\* get_expected_source: "state_change = self.expected_state_change" and the
\* rest of the method; on None state_change.from_states raises
ges_read(t) ==
    /\ pc[t] = "ges_read"
    /\ IF expected_state_change = NoChange
       THEN Raise(t)
       ELSE /\ source' = [source EXCEPT ![t] =
                   get_expected_source(expected_state_change, last_state,
                                       current_state)]
            /\ Goto(t, "sm_clear")
            /\ UNCHANGED <<layers, history, progress, expected_state_change,
                           state_lock, op, via, has_set_expected_change,
                           state_change, command_id, sent, intr, detected,
                           pushed, tage>>

\* state_may_have_changed without "self.expected_state_change = None"
sm_clear_kept(t) ==
    /\ pc[t] = "sm_clear"
    /\ Goto(t, "sm_pre")
    /\ UNCHANGED <<layers, history, progress, expected_state_change,
                   state_lock, op, via, locals, sent, intr, detected, pushed,
                   tage>>

\* state_may_have_changed: self.expected_state_change = None
sm_clear(t) ==
    /\ pc[t] = "sm_clear"
    /\ WriteLocked(NoChange)
    /\ Goto(t, "sm_pre")
    /\ UNCHANGED <<layers, history, progress, state_lock, op, via, locals,
                   sent, intr, detected>>

\* self.pre_state_change_signal.send(self, command_id=command_id)
sm_pre(t) ==
    /\ pc[t] = "sm_pre"
    /\ sent' = [kind |-> "pre", by |-> t, command_id |-> command_id[t]]
    /\ Goto(t, "sm_changed")
    /\ UNCHANGED <<layers, history, progress, expected_state_change,
                   state_lock, op, via, locals, intr, detected, pushed, tage>>

\* state_changed sent with current_state as from_state
sm_changed_from_current(t) ==
    /\ pc[t] = "sm_changed"
    /\ sent' = [kind |-> "changed", by |-> t, from_state |-> current_state,
                to_state |-> current_state, command_id |-> command_id[t],
                source |-> source[t]]
    /\ Goto(t, "sm_post")
    /\ UNCHANGED <<layers, history, progress, expected_state_change,
                   state_lock, op, via, locals, intr, detected, pushed, tage>>

\* self.state_changed_signal.send(self, from_state=..., to_state=...,
\* command_id=..., source=...)
sm_changed(t) ==
    /\ pc[t] = "sm_changed"
    /\ sent' = [kind |-> "changed", by |-> t, from_state |-> last_state,
                to_state |-> current_state, command_id |-> command_id[t],
                source |-> source[t]]
    /\ Goto(t, "sm_post")
    /\ UNCHANGED <<layers, history, progress, expected_state_change,
                   state_lock, op, via, locals, intr, detected, pushed, tage>>

\* self.post_state_change_signal.send(self): the receivers run with the
\* frame of state_may_have_changed alive
sm_post(t) ==
    /\ pc[t] = "sm_post"
    /\ sent' = [kind |-> "post", by |-> t]
    /\ Goto(t, "w_exit")
    /\ UNCHANGED <<layers, history, progress, expected_state_change,
                   state_lock, op, via, locals, intr, detected, pushed, tage>>

\* the wrapper calling stop_expecting_change whoever pushed the descriptor
w_exit_clear_always(t) ==
    /\ pc[t] = "w_exit"
    /\ expected_state_change' = NoChange
    /\ tage' = 0
    /\ pushed' = NoChange
    /\ Goto(t, "w_release")
    /\ UNCHANGED <<layers, history, progress, state_lock, op, via, locals,
                   sent, intr, detected>>

\* wrapper: "if has_set_expected_change: self.stop_expecting_change()",
\* still inside the with block
w_exit(t) ==
    /\ pc[t] = "w_exit"
    /\ IF has_set_expected_change[t]
       THEN /\ expected_state_change' = NoChange
            /\ tage' = 0
            /\ pushed' = NoChange
       ELSE /\ UNCHANGED <<expected_state_change, tage>>
            /\ pushed' = IF intr THEN pushed ELSE NoChange
    /\ Goto(t, "w_release")
    /\ UNCHANGED <<layers, history, progress, state_lock, op, via, locals,
                   sent, intr, detected>>

\* the with block is left, normally or by the exception: state_lock is
\* released and the call is over
w_release(t) ==
    /\ pc[t] = "w_release"
    /\ Unlock(t)
    /\ UNCHANGED <<layers, history, progress, expected_state_change, pushed,
                   tage>>

Next ==
    \/ \E d \in CallerChanges : expect_change(d)
    \/ stop_expecting_change
    \/ \E t \in Threads :
        \/ \E o \in Ops : Call(t, o)
        \/ \E p \in Progresses : print_info_handler(t, p)
        \/ \E g \in BOOLEAN, f \in BOOLEAN : sd_printing_handler(t, g, f)
        \/ \E f \in BOOLEAN : file_printer_started_printing(t, f)
        \/ fps_push(t)
        \/ file_printer_stopped_printing(t)
        \/ fpe_push(t)
        \/ Acquire(t)
        \/ w_check(t)
        \/ w_push(t)
        \/ w_func(t)
        \/ sm_is_expected(t)
        \/ sm_cid_test(t)
        \/ sm_cid_read(t)
        \/ ges_test(t)
        \/ ges_read(t)
        \/ sm_clear(t)
        \/ sm_pre(t)
        \/ sm_changed(t)
        \/ sm_post(t)
        \/ w_exit(t)
        \/ w_release(t)

Spec == Init /\ [][Next]_vars

(***************************************************************************)
(* The attribution as a function of its inputs: a specification of its    *)
(* own that draws expected_state_change, last_state and current_state     *)
(* from bounded sets and calls get_expected_source once.                  *)
(***************************************************************************)

\* the Sources used in the dicts of AttrChanges
AttrSources == {None, "USER", "MARLIN"}

\* the dicts of AttrChanges: empty, or one State mapped to a Source or None
AttrDicts ==
    {EmptyDict} \cup {s :> v : s \in States, v \in AttrSources}

\* the StateChanges get_expected_source is called with
AttrChanges ==
    {StateChange(NoneId, to, from, d) :
        to \in AttrDicts, from \in AttrDicts, d \in {None, "WUI"}}
    \cup {Default(o) : o \in Ops} \cup CallerChanges

AttrInit ==
    /\ base_state = "READY"
    /\ printing_state = None
    /\ override_state = None
    /\ last_state \in States
    /\ current_state \in States
    /\ progress = 0
    /\ expected_state_change \in AttrChanges \cup {NoChange}
    /\ state_lock = Reader
    /\ pc = [t \in Threads |-> IF t = Reader THEN "attr" ELSE "idle"]
    /\ op = [t \in Threads |-> "none"]
    /\ via = [t \in Threads |-> "none"]
    /\ has_set_expected_change = [t \in Threads |-> FALSE]
    /\ state_change = [t \in Threads |-> NoChange]
    /\ command_id = [t \in Threads |-> NoneId]
    /\ source = [t \in Threads |-> None]
    /\ sent = NothingSent
    /\ intr = FALSE
    /\ detected = FALSE
    /\ pushed = NoChange
    /\ tage = 0

\* source = self.get_expected_source()
attr_call(t) ==
    /\ pc[t] = "attr"
    /\ source' = [source EXCEPT ![t] =
           get_expected_source(expected_state_change, last_state,
                               current_state)]
    /\ Goto(t, "attr_done")
    /\ UNCHANGED <<layers, history, progress, expected_state_change,
                   state_lock, op, via, has_set_expected_change, state_change,
                   command_id, sent, intr, detected, pushed, tage>>

AttrNext == \E t \in Threads : attr_call(t)

AttrSpec == AttrInit /\ [][AttrNext]_vars

(***************************************************************************)
(* Progress: the same handlers with subscribers that may call back into   *)
(* the StateManager, and with the fairness the scheduling gives.           *)
(* The calls are drawn from fewer operations, handlers and descriptors,    *)
(* which is enough to take every path through the wrapper and to have a   *)
(* thread wait for the lock with and without a push of its own.           *)
(***************************************************************************)

\* the decorated methods called in this specification
LiveOps == {"busy", "ok", "paused", "serial_error", "serial_error_resolved"}

\* the descriptor other components push in this specification
LiveChanges == {StateChange(7, EmptyDict, EmptyDict, "WUI")}

\* a receiver connected to the signal that thread t is sending calls the
\* decorated method o: send() runs the receivers synchronously in the
\* sending thread, inside the with block, so the call is made by t while t
\* holds state_lock, and t goes on only when the call has returned.  The
\* sends are lines 263 to 269: t is between the first send and the end of
\* state_may_have_changed
subscriber_call(t, o) ==
    /\ state_lock = t
    /\ sent.kind # "none"
    /\ sent.by = t
    /\ pc[t] \in {"sm_changed", "sm_post", "w_exit"}
    /\ op' = [op EXCEPT ![t] = o]
    /\ via' = [via EXCEPT ![t] = "subscriber"]
    /\ Goto(t, "acquire")
    /\ UNCHANGED <<layers, history, progress, expected_state_change,
                   state_lock, locals, sent, intr, detected, pushed, tage>>

LiveNext ==
    \/ \E d \in LiveChanges : expect_change(d)
    \/ stop_expecting_change
    \/ \E t \in Threads :
        \/ \E o \in LiveOps : Call(t, o)
        \/ \E o \in LiveOps : subscriber_call(t, o)
        \/ \E g \in BOOLEAN, f \in BOOLEAN : sd_printing_handler(t, g, f)
        \/ \E f \in BOOLEAN : file_printer_started_printing(t, f)
        \/ fps_push(t)
        \/ Acquire(t)
        \/ w_check(t)
        \/ w_push(t)
        \/ w_func(t)
        \/ sm_is_expected(t)
        \/ sm_cid_test(t)
        \/ sm_cid_read(t)
        \/ ges_test(t)
        \/ ges_read(t)
        \/ sm_clear(t)
        \/ sm_pre(t)
        \/ sm_changed(t)
        \/ sm_post(t)
        \/ w_exit(t)
        \/ w_release(t)

\* the steps a thread takes by itself once it is inside a handler or
\* holds the lock
Continue(t) ==
    \/ fps_push(t)
    \/ w_check(t)
    \/ w_push(t)
    \/ w_func(t)
    \/ sm_is_expected(t)
    \/ sm_cid_test(t)
    \/ sm_cid_read(t)
    \/ ges_test(t)
    \/ ges_read(t)
    \/ sm_clear(t)
    \/ sm_pre(t)
    \/ sm_changed(t)
    \/ sm_post(t)
    \/ w_exit(t)
    \/ w_release(t)

\* a thread that can run does run, and a thread waiting for a lock that
\* stays free gets it.  threading.Lock promises nothing to a waiter while
\* other threads keep taking the lock, so there is no strong fairness.
\* Nothing obliges a caller to call, nor a subscriber to call back.
LiveSpec ==
    /\ Init
    /\ [][LiveNext]_vars
    /\ \A t \in Threads : WF_vars(Continue(t)) /\ WF_vars(Acquire(t))

(***************************************************************************)
(* The claims                                                             *)
(***************************************************************************)

\* thread t returns from a decorated method in this step
Returns(t) == pc[t] = "w_release" /\ pc'[t] = "idle"

\* C1 as stated: whenever a mutating operation returns,
\* expected_state_change is None
C1_LedgerEmptyOnReturn ==
    [][\A t \in Threads :
          Returns(t) => expected_state_change' = NoChange]_vars

\* the wrapper of thread t passes lines 64 and 65 in this step
Leaves(t) == pc[t] = "w_exit" /\ pc'[t] = "w_release"

\* C1 amended: the wrapper that pushed the operation's default empties
\* expected_state_change before it releases the lock; when a mutating
\* operation returns and no thread without the lock has written the ledger
\* during the call, expected_state_change is None if the wrapper pushed
\* the default or the operation detected a change of the reportable state,
\* and a descriptor a caller pushed before the call is still pending,
\* unchanged, when the operation detected no change
C1_LedgerOnReturn ==
    [][\A t \in Threads :
          /\ (Leaves(t) /\ has_set_expected_change[t]) =>
                 expected_state_change' = NoChange
          /\ Returns(t) =>
                /\ (has_set_expected_change[t] /\ ~intr) =>
                       expected_state_change' = NoChange
                /\ (detected /\ ~intr) => expected_state_change' = NoChange
                /\ (~has_set_expected_change[t] /\ ~detected /\ ~intr) =>
                       /\ expected_state_change' # NoChange
                       /\ expected_state_change' = expected_state_change]_vars

\* a caller's descriptor is about to survive an operation that changed
\* nothing
C1_Witness ==
    \E t \in Threads :
        /\ pc[t] = "w_release"
        /\ ~has_set_expected_change[t]
        /\ ~detected
        /\ ~intr
        /\ expected_state_change \in CallerChanges

\* C2 as stated: a command id taken from a caller's descriptor is published
\* only by the first mutating operation invoked after the push
C2_OnlyFirstOperation ==
    \A t \in Threads :
        (sent.kind = "changed" /\ sent.by = t /\ sent.command_id # NoneId
            /\ ~intr)
        => pushed # NoChange

\* C2 amended: a caller's descriptor stays pending until the first
\* mutating operation that changes the reportable state; command id and
\* source of a transition are taken from a descriptor only if the
\* transition is the first change detected since that descriptor was pushed
C2_OnlyFirstTransition ==
    \A t \in Threads :
        pc[t] \in {"sm_is_expected", "sm_cid_test", "sm_cid_read", "ges_test",
                   "ges_read", "sm_clear"}
        => tage <= 1

\* the command id of a descriptor is taken by an operation that is not the
\* first one after the push
C2_Witness ==
    \E t \in Threads :
        /\ pc[t] = "sm_clear"
        /\ command_id[t] # NoneId
        /\ ~intr
        /\ pushed = NoChange
        /\ tage = 1

\* C3 as stated: expect_change while a descriptor is pending leaves the
\* pending descriptor in place
C3_ExistingWins ==
    [][\A d \in CallerChanges :
          (expect_change(d) /\ expected_state_change # NoChange)
          => expected_state_change' = expected_state_change]_vars

\* C3 amended: expect_change while a descriptor is pending replaces it, the
\* ledger holds the new descriptor afterwards; only the wrapper's default is
\* not pushed over a pending descriptor
C3_NewWins ==
    [][/\ \A d \in CallerChanges :
             (expect_change(d) /\ expected_state_change # NoChange)
             => expected_state_change' = d
       /\ \A t \in Threads :
             (pc[t] = "w_check" /\ pc'[t] # "w_check"
                 /\ expected_state_change # NoChange)
             => (pc'[t] = "w_func"
                 /\ expected_state_change' = expected_state_change)]_vars

\* the wrapper has pushed its default and a caller's push has replaced it
C3_Witness ==
    \E t \in Threads :
        /\ pc[t] = "w_func"
        /\ has_set_expected_change[t]
        /\ expected_state_change \in CallerChanges
        /\ pushed = expected_state_change

\* C4: pre_state_change, state_changed and post_state_change of a
\* transition are sent in this order by one thread, and nothing of another
\* transition is sent before the three are through
C4_NotificationOrder ==
    [][sent' # sent =>
         /\ sent'.kind = "pre" => sent = NothingSent
         /\ sent'.kind = "changed" =>
                (sent.kind = "pre" /\ sent.by = sent'.by)
         /\ sent'.kind = "post" =>
                (sent.kind = "changed" /\ sent.by = sent'.by)
         /\ sent' = NothingSent => sent.kind = "post"]_vars

\* one thread is sending post_state_change while the other waits for the
\* lock with a call that will change the reportable state
C4_Witness ==
    /\ sent.kind = "post"
    /\ sent.by = Reader
    /\ pc[Other] = "acquire"
    /\ op[Other] = "printing"
    /\ printing_state = None
    /\ override_state = None

\* C5: expected_state_change is written only by the thread that holds
\* state_lock
C5_LedgerWrittenUnderLock ==
    [][expected_state_change' # expected_state_change =>
         /\ state_lock # Free
         /\ pc'[state_lock] # pc[state_lock]]_vars

\* the reduction the claim states, by cases
Reduces(r, base, prn, ovr) ==
    /\ ovr # None => r = ovr
    /\ (ovr = None /\ prn # None) => r = prn
    /\ (ovr = None /\ prn = None) => r = base

\* C6: what get_state() returned to state_may_have_changed is
\* override_state if set, else printing_state if set, else base_state
C6_Reduction ==
    \A t \in Threads :
        (state_lock = t /\ pc[t] \notin {"w_check", "w_push", "w_func"})
        => Reduces(current_state, base_state, printing_state,
                   override_state)

\* get_state() was called with all three layers occupied
C6_Witness ==
    \E t \in Threads :
        /\ state_lock = t
        /\ pc[t] = "sm_is_expected"
        /\ base_state = "BUSY"
        /\ printing_state = "PAUSED"
        /\ override_state = "ERROR"
        /\ current_state = "ERROR"

\* C7: when a mutating operation is about to return, the same operation
\* called again leaves the three layers as they are and finds the
\* reportable state equal to current_state, so that the second call updates
\* neither last_state nor current_state and sends nothing
C7_Idempotent ==
    \A t \in Threads :
        pc[t] \in {"w_exit", "w_release"} =>
            LET l == func(op[t], Layers)
            IN  /\ l = Layers
                /\ get_state(l.base_state, l.printing_state,
                             l.override_state) = current_state

\* ok() has changed the reportable state and is about to return
C7_Witness ==
    \E t \in Threads :
        /\ pc[t] = "w_exit"
        /\ op[t] = "ok"
        /\ detected
        /\ sent.kind = "post"

\* the source the claim names for a descriptor d and a pair of states; a
\* source resolves when the state is a key of the dict and its value is a
\* Source
ClaimSource(d, last, cur) ==
    IF d = NoChange THEN None
    ELSE
    LET from_resolves == /\ last \in DOMAIN d.from_states
                         /\ d.from_states[last] \in Sources
        to_resolves == /\ cur \in DOMAIN d.to_states
                       /\ d.to_states[cur] \in Sources
    IN  CASE from_resolves /\ to_resolves -> d.from_states[last]
          [] from_resolves /\ ~to_resolves -> d.from_states[last]
          [] ~from_resolves /\ to_resolves -> d.to_states[cur]
          [] OTHER -> d.default_source

\* C8: get_expected_source returns the from-source when both sources
\* resolve, the resolved one when one does, the default source when none
\* does, and None without a descriptor
C8_Attribution ==
    \A t \in Threads :
        pc[t] = "attr_done" =>
            source[t] = ClaimSource(expected_state_change, last_state,
                                    current_state)

\* get_expected_source was called with two sources that resolve and differ
C8_Witness ==
    \E t \in Threads :
        /\ pc[t] = "attr_done"
        /\ expected_state_change # NoChange
        /\ last_state \in DOMAIN expected_state_change.from_states
        /\ current_state \in DOMAIN expected_state_change.to_states
        /\ expected_state_change.from_states[last_state] = "USER"
        /\ expected_state_change.to_states[current_state] = "MARLIN"
        /\ expected_state_change.default_source = "WUI"
        /\ source[t] = "USER"

\* a transition is expected under a descriptor d, in the words of the claim
ClaimExpected(d, last, cur) ==
    /\ d # NoChange
    /\ \/ cur \in DOMAIN d.to_states
       \/ last \in DOMAIN d.from_states
       \/ d.default_source # None

\* C9: pre_state_change and state_changed carry the same command id; it is
\* the command id of the descriptor pending during the cycle when the
\* transition is expected under it, and an unexpected transition is sent
\* with no command id and no source
C9_CommandId ==
    \A t \in Threads :
        (sent.kind \in {"pre", "changed"} /\ sent.by = t) =>
            LET d == state_change[t]
                e == ClaimExpected(d, last_state, current_state)
            IN  /\ sent.command_id = command_id[t]
                /\ ~e => sent.command_id = NoneId
                /\ (~e /\ sent.kind = "changed") => sent.source = None
                /\ (e /\ ~intr) => sent.command_id = d.command_id

\* a transition expected through from_states is sent with the command id
\* of the caller's descriptor
C9_Witness ==
    /\ sent.kind = "changed"
    /\ sent.from_state = "BUSY"
    /\ sent.to_state = "PRINTING"
    /\ sent.command_id = 9
    /\ sent.source = "SERIAL"
    /\ ~intr

\* C10: when a caller has pushed a descriptor and the next mutating
\* operation changes the reportable state, source and command id of the
\* transition are those the caller's descriptor gives
C10_CallerPrecedence ==
    \A t \in Threads :
        (sent.kind = "changed" /\ sent.by = t /\ pushed # NoChange
            /\ ~intr) =>
            LET e == ClaimExpected(pushed, sent.from_state, sent.to_state)
            IN  /\ sent.command_id =
                       IF e THEN pushed.command_id ELSE NoneId
                /\ sent.source =
                       IF e THEN ClaimSource(pushed, sent.from_state,
                                             sent.to_state)
                       ELSE None

\* the scenario of the claim: {to: {FINISHED: CONNECT}, command id 42}
\* pushed, then finished() while printing
C10_Witness ==
    /\ pushed = StateChange(42, "FINISHED" :> "CONNECT", EmptyDict, None)
    /\ op[Reader] = "finished"
    /\ sent = [kind |-> "changed", by |-> Reader, from_state |-> "PRINTING",
               to_state |-> "FINISHED", command_id |-> 42,
               source |-> "CONNECT"]

\* the source of the operation's row in the table of the claim
RowSource(o) ==
    CASE o \in {"printing", "paused", "resumed", "attention"} -> "USER"
      [] o \in {"not_printing", "finished", "busy"} -> "MARLIN"
      [] o = "error" -> "WUI"
      [] o \in {"serial_error", "serial_error_resolved"} -> "SERIAL"

\* C11: a transition published by an operation other than ok() that was
\* called with an empty ledger, and whose default descriptor no other
\* thread has replaced, carries the source of the operation's row and no
\* command id
C11_DefaultAttribution ==
    \A t \in Threads :
        (sent.kind = "changed" /\ sent.by = t /\ op[t] # "ok"
            /\ has_set_expected_change[t] /\ ~intr)
        => (sent.source = RowSource(op[t]) /\ sent.command_id = NoneId)

\* C12: a transition published by ok() under its default descriptor has
\* source HW when it leaves BUSY and source USER when it leaves ATTENTION
\* or ERROR, whatever state it leads to, and carries no command id
C12_OkAttribution ==
    \A t \in Threads :
        (sent.kind = "changed" /\ sent.by = t /\ op[t] = "ok"
            /\ has_set_expected_change[t] /\ ~intr)
        => /\ sent.from_state = "BUSY" => sent.source = "HW"
           /\ sent.from_state \in {"ATTENTION", "ERROR"} =>
                  sent.source = "USER"
           /\ sent.command_id = NoneId

\* READY -> busy() -> ok(): ok() has published BUSY -> READY with source HW
C12_Witness ==
    /\ op[Reader] = "ok"
    /\ has_set_expected_change[Reader]
    /\ ~intr
    /\ sent = [kind |-> "changed", by |-> Reader, from_state |-> "BUSY",
               to_state |-> "READY", command_id |-> NoneId, source |-> "HW"]
    /\ printing_state = None
    /\ override_state = None

\* thread t executes the body of a decorated method in this step
Body(t) == pc[t] = "w_func" /\ pc'[t] # "w_func"

\* thread t executes the body of the decorated method o in this step
Runs(t, o) == Body(t) /\ op[t] = o

\* C13: a line that says "not printing" handled while printing_state is
\* PAUSED makes the handler call printing(), and that call, finding
\* printing_state PAUSED, changes no layer, leaves last_state and
\* current_state alone and sends nothing; handled in any other activity
\* state it makes the handler call not_printing(), which leaves
\* printing_state unset
C13_StickyPause ==
    [][\A t \in Threads :
          /\ \A g \in BOOLEAN, f \in BOOLEAN :
                (sd_printing_handler(t, g, f) /\ ~g /\ ~f) =>
                    op'[t] = IF printing_state = "PAUSED"
                             THEN "printing" ELSE "not_printing"
          /\ (via[t] = "sd_idle" /\ Runs(t, "printing")
                 /\ printing_state = "PAUSED") =>
                 /\ UNCHANGED <<layers, history>>
                 /\ pc'[t] = "w_exit"
                 /\ sent = NothingSent
                 /\ sent' = NothingSent
          /\ (via[t] = "sd_idle" /\ Runs(t, "not_printing")) =>
                 printing_state' = None]_vars

\* printing() -> paused() -> a line that says "not printing": the handler
\* called printing(), which is about to return without a change
C13_Witness ==
    /\ via[Reader] = "sd_idle"
    /\ op[Reader] = "printing"
    /\ pc[Reader] = "w_exit"
    /\ ~detected
    /\ printing_state = "PAUSED"
    /\ current_state = "PAUSED"
    /\ last_state = "PRINTING"

\* C14: every transition to PRINTING published by the printing() call of
\* file_printer_started_printing has source CONNECT, and every transition
\* to FINISHED published by the finished() call of
\* file_printer_stopped_printing has source MARLIN
C14_ExternalJobSource ==
    \A t \in Threads :
        (sent.kind = "changed" /\ sent.by = t) =>
            /\ (via[t] = "fp_start" /\ sent.to_state = "PRINTING") =>
                   sent.source = "CONNECT"
            /\ (via[t] = "fp_stop" /\ sent.to_state = "FINISHED") =>
                   sent.source = "MARLIN"

\* C15: last_state and current_state start as READY; last_state changes
\* only in a step that changes current_state and then takes the value
\* current_state had; a decorated method whose body leaves the reportable
\* state as it was leaves both alone; state_changed is sent with
\* from_state = last_state, to_state = current_state, and the two differ
C15_ReportedHistory ==
    /\ last_state = "READY"
    /\ current_state = "READY"
    /\ [][/\ last_state' # last_state => current_state' # current_state
          /\ current_state' # current_state => last_state' = current_state
          /\ \A t \in Threads :
                (pc[t] = "w_func" /\ pc'[t] # "w_func"
                    /\ get_state(base_state', printing_state',
                                 override_state')
                       = get_state(base_state, printing_state,
                                   override_state))
                => UNCHANGED history
          /\ (sent' # sent /\ sent'.kind = "changed") =>
                /\ sent'.from_state = last_state
                /\ sent'.to_state = current_state
                /\ sent'.from_state # sent'.to_state]_vars

\* the second transition of a run is being published: last_state has taken
\* the value current_state had after the first one
C15_Witness ==
    /\ sent.kind = "changed"
    /\ sent.from_state = "BUSY"
    /\ sent.to_state = "ATTENTION"
    /\ last_state = "BUSY"
    /\ current_state = "ATTENTION"

\* the number of layers a step changes
LayersChanged ==
    (IF base_state' # base_state THEN 1 ELSE 0)
    + (IF printing_state' # printing_state THEN 1 ELSE 0)
    + (IF override_state' # override_state THEN 1 ELSE 0)

\* the frame of each operation: the layers it never touches
Frame(t) ==
    /\ op[t] \in {"printing", "not_printing", "finished", "paused",
                  "resumed"}
       => UNCHANGED <<base_state, override_state>>
    /\ op[t] = "busy" => UNCHANGED <<printing_state, override_state>>
    /\ op[t] \in {"attention", "error", "serial_error",
                  "serial_error_resolved"}
       => UNCHANGED <<base_state, printing_state>>

\* C16 as stated: every operation leaves the layers that are not its own
\* untouched and no call changes two or more layers
C16_OneLayerPerCall ==
    [][\A t \in Threads :
          Body(t) => (Frame(t) /\ LayersChanged <= 1)]_vars

\* C16 amended: every operation other than ok() leaves the layers that are
\* not its own untouched and changes at most one layer per call; a call of
\* ok() changes every layer that is due: base BUSY -> READY, activity
\* FINISHED -> unset and a set override -> unset, up to all three at once
C16_LayerFrame ==
    [][\A t \in Threads :
          Body(t) =>
            /\ Frame(t)
            /\ op[t] # "ok" => LayersChanged <= 1
            /\ op[t] = "ok" =>
                  LayersChanged = (IF base_state = "BUSY" THEN 1 ELSE 0)
                      + (IF printing_state = "FINISHED" THEN 1 ELSE 0)
                      + (IF override_state # None THEN 1 ELSE 0)]_vars

\* the body of ok() is about to run with all three layers due to change
C16_Witness ==
    \E t \in Threads :
        /\ pc[t] = "w_func"
        /\ op[t] = "ok"
        /\ base_state = "BUSY"
        /\ printing_state = "FINISHED"
        /\ override_state = "ATTENTION"

\* the values the claim allows in each layer
LayerValues ==
    /\ base_state \in {"READY", "BUSY"}
    /\ printing_state \in {None, "PRINTING", "PAUSED", "FINISHED"}
    /\ override_state \in {None, "ATTENTION", "ERROR"}

\* the table of the claim: the layers after operation o, given the layers
\* b (base), a (activity) and v (override) before it
ClaimEffect(o, b, a, v) ==
    CASE o = "printing" -> <<b, IF a = None THEN "PRINTING" ELSE a, v>>
      [] o = "not_printing" -> <<b, None, v>>
      [] o = "finished" -> <<b, IF a = "PRINTING" THEN "FINISHED" ELSE a, v>>
      [] o = "paused" -> <<b, IF a = "PRINTING" THEN "PAUSED" ELSE a, v>>
      [] o = "resumed" -> <<b, IF a = "PAUSED" THEN "PRINTING" ELSE a, v>>
      [] o = "busy" -> <<IF b = "READY" THEN "BUSY" ELSE b, a, v>>
      [] o = "ok" -> <<IF b = "BUSY" THEN "READY" ELSE b,
                       IF a = "FINISHED" THEN None ELSE a, None>>
      [] o = "attention" -> <<b, a, "ATTENTION">>
      [] o \in {"error", "serial_error"} -> <<b, a, "ERROR">>
      [] o = "serial_error_resolved" ->
           <<b, a, IF v = "ERROR" THEN None ELSE v>>

\* C17: the body of each operation takes the layers to the values the
\* table gives for the layers it finds, and the layers only ever hold
\* READY or BUSY (base), nothing, PRINTING, PAUSED or FINISHED (activity),
\* nothing, ATTENTION or ERROR (override)
C17_TransitionRelation ==
    /\ LayerValues
    /\ [][/\ LayerValues'
          /\ \A t \in Threads :
                Body(t) =>
                    <<base_state', printing_state', override_state'>>
                    = ClaimEffect(op[t], base_state, printing_state,
                                  override_state)
          /\ (\A t \in Threads : ~Body(t)) => UNCHANGED layers]_vars

\* attention() has replaced a pending ERROR: the transition ERROR ->
\* ATTENTION is detected
C17_Witness ==
    \E t \in Threads :
        /\ pc[t] = "sm_is_expected"
        /\ op[t] = "attention"
        /\ last_state = "ERROR"
        /\ current_state = "ATTENTION"
        /\ override_state = "ATTENTION"

\* the operations on the base and the activity layer that cannot touch the
\* override
Underneath == {"printing", "not_printing", "finished", "paused", "resumed",
               "busy"}

\* C18: with the override set and no bracket in progress current_state is
\* the override; a call of printing, not_printing, finished, paused,
\* resumed or busy made while the override is set keeps the override,
\* leaves last_state and current_state alone and sends nothing; a change
\* detected while the override is set is a transition from the override
\* state made by an operation that clears or replaces the override
C18_OverrideOutranks ==
    [][/\ (override_state' # None /\ state_lock' = Free) =>
              current_state' = override_state'
       /\ \A t \in Threads :
             (override_state # None /\ Body(t) /\ op[t] \in Underneath) =>
                 /\ UNCHANGED <<override_state, history>>
                 /\ pc'[t] = "w_exit"
                 /\ sent = NothingSent
                 /\ sent' = NothingSent
       /\ (override_state # None /\ current_state' # current_state) =>
             /\ \E t \in Threads : Body(t) /\ op[t] \notin Underneath
             /\ override_state' # override_state
             /\ last_state' = override_state]_vars

\* ATTENTION was entered from READY and is still reported although
\* busy(), printing() and paused() have changed the layers underneath
C18_Witness ==
    /\ state_lock = Free
    /\ override_state = "ATTENTION"
    /\ last_state = "READY"
    /\ current_state = "ATTENTION"
    /\ base_state = "BUSY"
    /\ printing_state = "PAUSED"

\* C20: whenever no thread holds state_lock, current_state is what
\* get_state() returns for the three layers
C20_CurrentStateFresh ==
    state_lock = Free =>
        current_state = get_state(base_state, printing_state, override_state)

\* no bracket is in progress after ok() has uncovered a paused print on a
\* busy printer: the last transition was ERROR -> PAUSED
C20_Witness ==
    /\ state_lock = Free
    /\ \A t \in Threads : pc[t] = "idle"
    /\ base_state = "BUSY"
    /\ printing_state = "PAUSED"
    /\ override_state = None
    /\ last_state = "ERROR"
    /\ current_state = "PAUSED"

\* thread u waits for the lock it holds itself: a subscriber it runs has
\* called a decorated method
Stuck(u) == state_lock = u /\ pc[u] = "acquire"

\* C19 as stated: a call of a decorated method made by a subscriber during
\* a send never gets the lock - the thread stays in that call holding the
\* lock for ever, so that no other thread gets the lock either; and as long
\* as no subscriber has called back, every thread that is inside a handler
\* or a decorated method gets back to idle with the lock released
C19_ReentryBlocks ==
    /\ [][\A u \in Threads :
            /\ (\E o \in LiveOps : subscriber_call(u, o)) => Stuck(u)'
            /\ Stuck(u) => Stuck(u)']_vars
    /\ \A t \in Threads :
          (pc[t] # "idle") ~>
              \/ pc[t] = "idle" /\ state_lock # t
              \/ \E u \in Threads : Stuck(u)

\* C19 amended: a call of a decorated method made by a subscriber during a
\* send never gets the lock - the thread stays in that call holding the
\* lock for ever, so that no other thread gets the lock either; as long as
\* no subscriber has called back, every thread that has the lock gets back
\* to idle with the lock released, a handler gets as far as its call, and
\* the lock a thread waits for becomes free (or its own) again; the wait
\* itself need not end while other threads keep taking the lock
C19_HolderReturns ==
    /\ [][\A u \in Threads :
            /\ (\E o \in LiveOps : subscriber_call(u, o)) => Stuck(u)'
            /\ Stuck(u) => Stuck(u)']_vars
    /\ \A t \in Threads :
          /\ (state_lock = t) ~>
                 \/ pc[t] = "idle" /\ state_lock # t
                 \/ Stuck(t)
          /\ (pc[t] = "fps_push") ~> (pc[t] = "acquire")
          /\ (pc[t] = "acquire" /\ state_lock # t) ~>
                 \/ state_lock \in {Free, t}
                 \/ \E u \in Threads : Stuck(u)

\* a subscriber of state_changed has called back on the reader thread,
\* and the other thread waits for the lock with a handler's call
C19_Witness ==
    /\ Stuck(Reader)
    /\ sent.kind = "changed"
    /\ sent.by = Reader
    /\ pc[Other] = "acquire"
====
